---- MODULE Spec2Model ----
(***************************************************************************)
(* A model of the Markov-chain engine of markov_bots: graph.Graph (the     *)
(* weighted state graph) and rw.RandomWriter (tokenization, training and   *)
(* generation).                                                            *)
(*                                                                         *)
(* Python values are represented as follows.                               *)
(*   - None / a value: the empty set / the singleton set of the value.     *)
(*   - a str: a sequence of one-character strings; a word produced by      *)
(*     str.split() is the TLA+ string of its characters.                   *)
(*   - a bytes object or a tuple: a sequence of its elements, each an      *)
(*     opaque value (a token is only ever hashed and compared).            *)
(*   - a dict: a function on its key set; a Counter, whose iteration       *)
(*     order yield_neighbor depends on: the sequence of its <<key, count>> *)
(*     items in insertion order.                                           *)
(***************************************************************************)
EXTENDS Integers, Sequences, FiniteSets, TLC

VARIABLES
    level,      \* RandomWriter._level
    mode,       \* RandomWriter._mode
    graph,      \* RandomWriter._graph (or the Graph object used on its own)
    gen,        \* the generator objects obtained from generate()
    result,     \* what the last call did: its outcome and the step it took
    trainCalls, \* history: the train_iterable calls made: 0, 1, or 2 for more
    trainTokens,\* history: the tokens of the last train_iterable call
    emitted,    \* history: the last tokens pulled from the generators
    addLog,     \* history: the add_edge calls made on a Graph used on its own
    seen,       \* history: the last tokens each generator object has yielded
    pickled,    \* the content of the pickle file (None: no such file)
    saved,      \* history: the model as it was when save_pickle wrote the file
    loaded,     \* the object the last load_pickle call returned
    written     \* the content of the file generate_file writes (None: no such file)

vars == <<level, mode, graph, gen, result, trainCalls, trainTokens, emitted, addLog,
          seen, pickled, saved, loaded, written>>

(***************************************************************************)
(* Bounds of the model.                                                    *)
(***************************************************************************)
MaxLevel == 2       \* levels 0..MaxLevel
MaxLen == 3         \* length of the data given to one train_iterable call
NGen == 1           \* generator objects alive at one time
MaxAdds == 4        \* add_edge calls on a Graph used on its own
MaxSeen == 2        \* tokens kept of what each generator has yielded

Chars == {" ", "a"}             \* characters of the str inputs
Whitespace == {" "}
Bytes == {"0x61"}               \* bytes of the bytes inputs
Items == {"x", "y"}             \* items of the tuple inputs

None == {}
Some(v) == {v}
The(opt) == CHOOSE v \in opt : TRUE

(***************************************************************************)
(* Tokenization                                                            *)
(***************************************************************************)
Tokenization == {"word", "character", "byte", "none"}

SeqsUpTo(S, n) == UNION {[1..k -> S] : k \in 0..n}

\* The kinds of object a caller may pass to train_iterable: a str, a bytes,
\* a tuple or list, an iterable without len() (a generator), a non-iterable.
DataOfLen(n) ==
    [kind : {"str"}, items : SeqsUpTo(Chars, n)]
        \cup [kind : {"bytes"}, items : SeqsUpTo(Bytes, n)]
        \cup [kind : {"tuple"}, items : SeqsUpTo(Items, n)]
        \cup [kind : {"iterator", "noniterable"}, items : {<<>>}]

RECURSIVE SplitFrom(_, _, _, _)
SplitFrom(text, i, word, acc) ==
    LET flush == IF word = "" THEN acc ELSE Append(acc, word)
    IN  IF i > Len(text) THEN flush
        ELSE IF text[i] \in Whitespace
             THEN SplitFrom(text, i + 1, "", flush)
             ELSE SplitFrom(text, i + 1, word \o text[i], acc)

\* str.split(): the maximal runs of non-whitespace characters, in order.
Split(text) == SplitFrom(text, 1, "", <<>>)

HasIter(data) == data.kind \in {"str", "bytes", "tuple", "iterator"}
HasLen(data) == data.kind \in {"str", "bytes", "tuple"}

\* RandomWriter.validate_datatype: the data to iterate over, or None.
validate_datatype(m, data) ==
    IF m = "word" /\ data.kind = "str"
        THEN Some([kind |-> "list", items |-> Split(data.items)])
    ELSE IF \/ m = "character" /\ data.kind = "str"
            \/ m = "byte" /\ data.kind = "bytes"
            \/ m = "none" /\ HasIter(data)
        THEN Some(data)
    ELSE None

(***************************************************************************)
(* collections.Counter, as used by Graph                                   *)
(***************************************************************************)
Counter == <<>>

CounterKeys(c) == {c[i][1] : i \in 1..Len(c)}

\* c[k]: a missing key counts 0
CounterGet(c, k) ==
    IF k \in CounterKeys(c)
        THEN (c[CHOOSE i \in 1..Len(c) : c[i][1] = k])[2]
        ELSE 0

\* A variant of CounterInc that stores 1 instead of adding 1.
CounterInc_assign(c, k) ==
    IF k \in CounterKeys(c)
        THEN [i \in 1..Len(c) |-> IF c[i][1] = k THEN <<k, 1>> ELSE c[i]]
        ELSE Append(c, <<k, 1>>)

\* c[k] += 1: a new key goes last in iteration order
CounterInc(c, k) ==
    IF k \in CounterKeys(c)
        THEN [i \in 1..Len(c) |-> IF c[i][1] = k THEN <<k, c[i][2] + 1>> ELSE c[i]]
        ELSE Append(c, <<k, 1>>)

RECURSIVE SumFrom(_, _)
SumFrom(c, i) == IF i > Len(c) THEN 0 ELSE c[i][2] + SumFrom(c, i + 1)

\* sum(c.values())
CounterSum(c) == SumFrom(c, 1)

(***************************************************************************)
(* graph.Graph                                                             *)
(***************************************************************************)
\* Graph.__init__: Graph() has no current state and no _vertices attribute
\* (the empty function stands for it); Graph(state) has the one vertex.
Graph(state) ==
    IF state = None
        THEN [state_key |-> None, vertices |-> [s \in {} |-> Counter]]
        ELSE [state_key |-> state, vertices |-> [s \in state |-> Counter]]

\* A variant of add_edge without the test that makes next_state a vertex.
add_edge_untracked(g, next_state) ==
    IF g.state_key = None
        THEN Graph(Some(next_state))
        ELSE [state_key |-> Some(next_state),
              vertices |-> [g.vertices EXCEPT ![The(g.state_key)] = CounterInc(@, next_state)]]

\* A variant of add_edge that makes next_state a vertex and the current
\* state but does not count the edge.
add_edge_nocount(g, next_state) ==
    IF g.state_key = None
        THEN Graph(Some(next_state))
        ELSE LET keys == DOMAIN g.vertices \cup {next_state}
                 added == [s \in keys |->
                              IF s \in DOMAIN g.vertices THEN g.vertices[s] ELSE Counter]
             IN  [state_key |-> Some(next_state), vertices |-> added]

\* Graph.add_edge
add_edge(g, next_state) ==
    IF g.state_key = None
        THEN Graph(Some(next_state))
        ELSE LET keys == DOMAIN g.vertices \cup {next_state}
                 added == [s \in keys |->
                              IF s \in DOMAIN g.vertices THEN g.vertices[s] ELSE Counter]
                 cur == The(g.state_key)
             IN  [state_key |-> Some(next_state),
                  vertices |-> [added EXCEPT ![cur] = CounterInc(@, next_state)]]

\* The weight of the edge a -> b (0 when there is none).
Weight(g, a, b) ==
    IF a \in DOMAIN g.vertices THEN CounterGet(g.vertices[a], b) ELSE 0

\* A variant of the loop that tests selection < 0.
RECURSIVE NeighborLoop_strict(_, _, _)
NeighborLoop_strict(c, i, selection) ==
    IF i > Len(c) THEN None
    ELSE IF selection - c[i][2] < 0 THEN Some(c[i][1])
    ELSE NeighborLoop_strict(c, i + 1, selection - c[i][2])

\* The loop of yield_neighbor: the first neighbor at which the draw, less the
\* weights so far, is <= 0; None when the loop ends (the assert(False)).
RECURSIVE NeighborLoop(_, _, _)
NeighborLoop(c, i, selection) ==
    IF i > Len(c) THEN None
    ELSE IF selection - c[i][2] <= 0 THEN Some(c[i][1])
    ELSE NeighborLoop(c, i + 1, selection - c[i][2])

neighbor_count(g) == CounterSum(g.vertices[The(g.state_key)])

\* Graph.yield_neighbor with the value random.randint returned.
yield_neighbor(g, selection) ==
    IF neighbor_count(g) = 0
        THEN [raised |-> "ValueError", neighbor |-> None]
    ELSE LET n == NeighborLoop(g.vertices[The(g.state_key)], 1, selection)
         IN  IF n = None
                 THEN [raised |-> "AssertionError", neighbor |-> None]
                 ELSE [raised |-> "none", neighbor |-> n]

\* What random.randint(1, neighbor_count) and random.choice(list(_vertices))
\* can return in one get_random_token call.  Only one of the two is drawn in
\* a call; the value of the other is never read.
Draws(g) ==
    IF g.state_key = None THEN {[selection |-> 0, choice |-> None]}
    ELSE [selection : IF neighbor_count(g) = 0 THEN {0} ELSE 1..neighbor_count(g),
          choice : {Some(v) : v \in DOMAIN g.vertices}]

\* A variant of get_random_token that always takes random.choice of the
\* vertices, whatever the neighbors of the current state.
get_random_token_uniform(g, draw) ==
    IF g.state_key = None
        THEN [graph |-> g, raised |-> "ValueError", token |-> None, restart |-> FALSE]
        ELSE [graph |-> [g EXCEPT !.state_key = draw.choice],
              raised |-> "none",
              token |-> Some(The(draw.choice)[Len(The(draw.choice))]),
              restart |-> FALSE]

\* A variant of get_random_token without the try/except: the ValueError of
\* yield_neighbor reaches the caller.
get_random_token_noexcept(g, draw) ==
    IF g.state_key = None
        THEN [graph |-> g, raised |-> "ValueError", token |-> None, restart |-> FALSE]
    ELSE LET y == yield_neighbor(g, draw.selection)
         IN  IF y.raised # "none"
                 THEN [graph |-> g, raised |-> y.raised, token |-> None, restart |-> FALSE]
                 ELSE [graph |-> [g EXCEPT !.state_key = y.neighbor],
                       raised |-> "none",
                       token |-> Some(The(y.neighbor)[Len(The(y.neighbor))]),
                       restart |-> FALSE]

\* A variant of get_random_token that counts the step it takes as an edge:
\* it moves the cursor by add_edge.
get_random_token_counting(g, draw) ==
    IF g.state_key = None
        THEN [graph |-> g, raised |-> "ValueError", token |-> None, restart |-> FALSE]
    ELSE LET y == yield_neighbor(g, draw.selection)
         IN  IF y.raised = "ValueError"
                 THEN [graph |-> add_edge(g, The(draw.choice)),
                       raised |-> "none",
                       token |-> Some(The(draw.choice)[Len(The(draw.choice))]),
                       restart |-> TRUE]
             ELSE IF y.raised = "AssertionError"
                 THEN [graph |-> g, raised |-> "AssertionError", token |-> None,
                       restart |-> FALSE]
             ELSE [graph |-> add_edge(g, The(y.neighbor)),
                   raised |-> "none",
                   token |-> Some(The(y.neighbor)[Len(The(y.neighbor))]),
                   restart |-> FALSE]

\* Graph.get_random_token with the random values drawn: the graph after the
\* call, the exception raised, the token returned and whether the step was a
\* restart.
get_random_token(g, draw) ==
    IF g.state_key = None
        THEN [graph |-> g, raised |-> "ValueError", token |-> None, restart |-> FALSE]
    ELSE LET y == yield_neighbor(g, draw.selection)
         IN  IF y.raised = "ValueError"
                 THEN [graph |-> [g EXCEPT !.state_key = draw.choice],
                       raised |-> "none",
                       token |-> Some(The(draw.choice)[Len(The(draw.choice))]),
                       restart |-> TRUE]
             ELSE IF y.raised = "AssertionError"
                 THEN [graph |-> g, raised |-> "AssertionError", token |-> None,
                       restart |-> FALSE]
             ELSE [graph |-> [g EXCEPT !.state_key = y.neighbor],
                   raised |-> "none",
                   token |-> Some(The(y.neighbor)[Len(The(y.neighbor))]),
                   restart |-> FALSE]

(***************************************************************************)
(* rw.RandomWriter                                                         *)
(***************************************************************************)
\* A variant of Windows whose range stops one short: range(len(data) - level).
Windows_dropLast(tokens, lvl) ==
    IF lvl = 0
        THEN [i \in 1..(Len(tokens) - 1) |-> SubSeq(tokens, i, i)]
        ELSE IF Len(tokens) - lvl <= 0 THEN <<>>
             ELSE [i \in 1..(Len(tokens) - lvl) |-> SubSeq(tokens, i, i + lvl - 1)]

\* A variant of Windows without the special case of level 0: the slices
\* data[i:i+level] for i in range(len(data) - level + 1) at every level.
Windows_literal(tokens, lvl) ==
    IF Len(tokens) - lvl + 1 <= 0 THEN <<>>
    ELSE [i \in 1..(Len(tokens) - lvl + 1) |-> SubSeq(tokens, i, i + lvl - 1)]

\* The slices train_iterable takes: data[i:i+1] for i in range(len(data)) at
\* level 0, data[i:i+level] for i in range(len(data) - level + 1) otherwise.
Windows(tokens, lvl) ==
    IF lvl = 0
        THEN [i \in 1..Len(tokens) |-> SubSeq(tokens, i, i)]
        ELSE IF Len(tokens) - lvl + 1 <= 0 THEN <<>>
             ELSE [i \in 1..(Len(tokens) - lvl + 1) |-> SubSeq(tokens, i, i + lvl - 1)]

\* The add_edge calls of train_iterable's loop, from window i on.
RECURSIVE AddWindows(_, _, _)
AddWindows(g, ws, i) ==
    IF i > Len(ws) THEN g ELSE AddWindows(add_edge(g, ws[i]), ws, i + 1)

\* A variant of train_iterable that makes a new Graph only when there is none
\* yet, and otherwise goes on adding to the one it has.
train_iterable_cumulative(lvl, m, g, data) ==
    LET valid == validate_datatype(m, data)
        start == IF g = None THEN Graph(None) ELSE The(g)
    IN  IF valid = None
            THEN [graph |-> g, raised |-> "TypeError", tokens |-> None]
        ELSE IF ~(The(valid).kind = "list" \/ HasLen(The(valid)))
            THEN [graph |-> Some(start), raised |-> "TypeError", tokens |-> None]
        ELSE [graph |-> Some(AddWindows(start, Windows(The(valid).items, lvl), 1)),
              raised |-> "none",
              tokens |-> Some(The(valid).items)]

\* A variant of train_iterable that makes the new Graph before it validates
\* the data.
train_iterable_resetfirst(lvl, m, g, data) ==
    LET valid == validate_datatype(m, data)
    IN  IF valid = None
            THEN [graph |-> Some(Graph(None)), raised |-> "TypeError", tokens |-> None]
        ELSE IF ~(The(valid).kind = "list" \/ HasLen(The(valid)))
            THEN [graph |-> Some(Graph(None)), raised |-> "TypeError", tokens |-> None]
        ELSE [graph |-> Some(AddWindows(Graph(None), Windows(The(valid).items, lvl), 1)),
              raised |-> "none",
              tokens |-> Some(The(valid).items)]

\* RandomWriter.train_iterable: the _graph after the call, the exception
\* raised and the tokens the data was read as (None when validation failed).
train_iterable(lvl, m, g, data) ==
    LET valid == validate_datatype(m, data)
    IN  IF valid = None
            THEN [graph |-> g, raised |-> "TypeError", tokens |-> None]
        ELSE IF ~(The(valid).kind = "list" \/ HasLen(The(valid)))
            \* self._graph is already the new Graph() when len(data) raises
            THEN [graph |-> Some(Graph(None)), raised |-> "TypeError", tokens |-> None]
        ELSE [graph |-> Some(AddWindows(Graph(None), Windows(The(valid).items, lvl), 1)),
              raised |-> "none",
              tokens |-> Some(The(valid).items)]

NoStep == [from |-> None, to |-> None, restart |-> FALSE]

\* The last `keep` elements of s \o <<t>>.
Recent(s, t, keep) ==
    LET all == Append(s, t)
    IN  IF Len(all) <= keep THEN all ELSE SubSeq(all, Len(all) - keep + 1, Len(all))

\* A call of rw.train_iterable(data).
TrainIterable(data) ==
    /\ LET t == train_iterable(level, mode, graph, data)
       IN  /\ graph' = t.graph
           /\ result' = [op |-> "train_iterable", raised |-> t.raised, by |-> "train_iterable",
                         token |-> None, step |-> NoStep]
           /\ trainTokens' = IF t.tokens = None THEN trainTokens ELSE t.tokens
    /\ trainCalls' = IF trainCalls = 0 THEN 1 ELSE 2
    /\ UNCHANGED <<level, mode, gen, emitted, addLog, seen, pickled, saved, loaded, written>>

\* The tokens kept of what one generator has yielded: as many as are kept of
\* all that was pulled, in the runs that keep at most MaxSeen; the longer
\* runs follow the tokens in pull order only.
SeenKeep(keep) == IF keep <= MaxSeen THEN keep ELSE 0

\* A call of rw.generate(): a new generator object in slot g; none of its
\* body has run yet.
Generate(g) ==
    /\ gen[g] # "live"
    /\ gen' = [gen EXCEPT ![g] = "live"]
    /\ seen' = [seen EXCEPT ![g] = <<>>]
    /\ UNCHANGED <<level, mode, graph, result, trainCalls, trainTokens, emitted, addLog,
                   pickled, saved, loaded, written>>

\* A variant of GeneratorNext in which a generator that has yielded a token
\* keeps a cursor of its own (at level 0 or 1, the state of the token it
\* yielded last) and steps from there.
GeneratorNext_owncursor(g, keep) ==
    /\ gen[g] # "none"
    /\ IF gen[g] = "finished"
           THEN /\ result' = [op |-> "next", raised |-> "StopIteration", by |-> "next",
                              token |-> None, step |-> NoStep]
                /\ UNCHANGED <<graph, gen, emitted, seen>>
       ELSE IF graph = None
           THEN /\ result' = [op |-> "next", raised |-> "ValueError", by |-> "generate",
                              token |-> None, step |-> NoStep]
                /\ gen' = [gen EXCEPT ![g] = "finished"]
                /\ UNCHANGED <<graph, emitted, seen>>
       ELSE LET own == IF seen[g] = <<>> \/ level > 1 THEN The(graph)
                       ELSE [The(graph) EXCEPT
                                !.state_key = Some(<<seen[g][Len(seen[g])]>>)]
            IN  \E draw \in Draws(own) :
                   LET r == get_random_token(own, draw)
                   IN  /\ graph' = Some(r.graph)
                       /\ result' = [op |-> "next", raised |-> r.raised,
                                     by |-> "get_random_token",
                                     token |-> r.token,
                                     step |-> IF r.raised = "none"
                                                  THEN [from |-> own.state_key,
                                                        to |-> r.graph.state_key,
                                                        restart |-> r.restart]
                                                  ELSE NoStep]
                       /\ gen' = [gen EXCEPT ![g] = IF r.raised = "none" THEN "live"
                                                    ELSE "finished"]
                       /\ emitted' = IF r.raised = "none"
                                         THEN Recent(emitted, The(r.token), keep)
                                         ELSE emitted
                       /\ seen' = IF r.raised = "none"
                                      THEN [seen EXCEPT ![g] = Recent(@, The(r.token), SeenKeep(keep))]
                                      ELSE seen
    /\ UNCHANGED <<level, mode, trainCalls, trainTokens, addLog, pickled, saved, loaded, written>>

\* A variant of GeneratorNext whose generate lacks the test of self._graph:
\* the first pull on a model without a graph fails on None.get_random_token.
GeneratorNext_unchecked(g, keep) ==
    /\ gen[g] # "none"
    /\ IF gen[g] = "finished"
           THEN /\ result' = [op |-> "next", raised |-> "StopIteration", by |-> "next",
                              token |-> None, step |-> NoStep]
                /\ UNCHANGED <<graph, gen, emitted, seen>>
       ELSE IF graph = None
           THEN /\ result' = [op |-> "next", raised |-> "AttributeError", by |-> "generate",
                              token |-> None, step |-> NoStep]
                /\ gen' = [gen EXCEPT ![g] = "finished"]
                /\ UNCHANGED <<graph, emitted, seen>>
       ELSE \E draw \in Draws(The(graph)) :
               LET r == get_random_token(The(graph), draw)
               IN  /\ graph' = Some(r.graph)
                   /\ result' = [op |-> "next", raised |-> r.raised, by |-> "get_random_token",
                                 token |-> r.token,
                                 step |-> IF r.raised = "none"
                                              THEN [from |-> The(graph).state_key,
                                                    to |-> r.graph.state_key,
                                                    restart |-> r.restart]
                                              ELSE NoStep]
                   /\ gen' = [gen EXCEPT ![g] = IF r.raised = "none" THEN "live"
                                                ELSE "finished"]
                   /\ emitted' = IF r.raised = "none" THEN Recent(emitted, The(r.token), keep)
                                 ELSE emitted
                   /\ seen' = IF r.raised = "none"
                                  THEN [seen EXCEPT ![g] = Recent(@, The(r.token), SeenKeep(keep))]
                                  ELSE seen
    /\ UNCHANGED <<level, mode, trainCalls, trainTokens, addLog, pickled, saved, loaded, written>>

\* next() on generator g: the body of generate up to its next yield.  The
\* test of self._graph runs on the first pull only; _graph is never set back
\* to None, so a live generator that finds it None has not started yet.  Each
\* pull reads self._graph anew.  An exception ends the generator.
GeneratorNext(g, keep) ==
    /\ gen[g] # "none"
    /\ IF gen[g] = "finished"
           THEN /\ result' = [op |-> "next", raised |-> "StopIteration", by |-> "next",
                              token |-> None, step |-> NoStep]
                /\ UNCHANGED <<graph, gen, emitted, seen>>
       ELSE IF graph = None
           THEN /\ result' = [op |-> "next", raised |-> "ValueError", by |-> "generate",
                              token |-> None, step |-> NoStep]
                /\ gen' = [gen EXCEPT ![g] = "finished"]
                /\ UNCHANGED <<graph, emitted, seen>>
       ELSE \E draw \in Draws(The(graph)) :
               LET r == get_random_token(The(graph), draw)
               IN  /\ graph' = Some(r.graph)
                   /\ result' = [op |-> "next", raised |-> r.raised, by |-> "get_random_token",
                                 token |-> r.token,
                                 step |-> IF r.raised = "none"
                                              THEN [from |-> The(graph).state_key,
                                                    to |-> r.graph.state_key,
                                                    restart |-> r.restart]
                                              ELSE NoStep]
                   /\ gen' = [gen EXCEPT ![g] = IF r.raised = "none" THEN "live"
                                                ELSE "finished"]
                   /\ emitted' = IF r.raised = "none" THEN Recent(emitted, The(r.token), keep)
                                 ELSE emitted
                   /\ seen' = IF r.raised = "none"
                                  THEN [seen EXCEPT ![g] = Recent(@, The(r.token), SeenKeep(keep))]
                                  ELSE seen
    /\ UNCHANGED <<level, mode, trainCalls, trainTokens, addLog, pickled, saved, loaded, written>>

NoResult == [op |-> "init", raised |-> "none", by |-> "init", token |-> None, step |-> NoStep]

\* RandomWriter.__init__ with a level >= 0 and one of the Tokenization values.
RandomWriter(lvl, m) ==
    /\ level = lvl
    /\ mode = m
    /\ graph = None
    /\ gen = [g \in 1..NGen |-> "none"]
    /\ result = NoResult
    /\ trainCalls = 0
    /\ trainTokens = None
    /\ emitted = <<>>
    /\ addLog = <<>>
    /\ seen = [g \in 1..NGen |-> <<>>]
    /\ pickled = None
    /\ saved = None
    /\ loaded = None
    /\ written = None

Init == \E lvl \in 0..MaxLevel, m \in Tokenization : RandomWriter(lvl, m)

Train == \E data \in DataOfLen(MaxLen) : TrainIterable(data)
NewGenerator == \E g \in 1..NGen : Generate(g)
Pull == \E g \in 1..NGen : GeneratorNext(g, 0)

Next == Train \/ NewGenerator \/ Pull

Spec == Init /\ [][Next]_vars

(***************************************************************************)
(* Definitions the properties below are stated with                        *)
(***************************************************************************)
Range(f) == {f[i] : i \in DOMAIN f}

\* The number of places where window b immediately follows window a in ws.
Follows(ws, a, b) == Cardinality({i \in 1..(Len(ws) - 1) : ws[i] = a /\ ws[i + 1] = b})

\* sub occurs in s as a run of consecutive elements.
Contains(s, sub) ==
    \E i \in 0..(Len(s) - Len(sub)) : \A j \in 1..Len(sub) : s[i + j] = sub[j]

Trained == graph # None /\ The(graph).state_key # None
Cursor == The(The(graph).state_key)
Vertices == DOMAIN The(graph).vertices
DeadEnd(g, v) == CounterSum(g.vertices[v]) = 0

\* The last call was a pull that returned a token.
Pulled == result.op = "next" /\ result.raised = "none"
StepFrom == The(result.step.from)
StepTo == The(result.step.to)

\* The windows of the data of the last train_iterable call.
TrainWindows == Windows(The(trainTokens), level)

(***************************************************************************)
(* One training call, then generation: the runs the generation properties  *)
(* speak of.  SpecWalk trains a tokenization-free model on a tuple and     *)
(* assumes that generation goes on and that a random draw that stays       *)
(* possible is eventually drawn: the step along each edge of the graph     *)
(* (from one window of the data to the next), and each restart.            *)
(***************************************************************************)
TrainOnce(data) == trainCalls = 0 /\ TrainIterable(data)

TupleData == [kind : {"tuple"}, items : SeqsUpTo(Items, MaxLen)]

InitWalk == \E lvl \in 0..MaxLevel : RandomWriter(lvl, "none")
TrainWalk == \E data \in TupleData : TrainOnce(data)
NextWalk == TrainWalk \/ NewGenerator \/ Pull

\* A pull that steps the cursor from a to b.
StepAB(a, b) ==
    /\ Trained
    /\ Cursor = a
    /\ Pull
    /\ The(graph').state_key = Some(b)
    /\ result'.raised = "none"

\* The training data has an i-th window.
HasWindow(i) == trainTokens # None /\ i <= Len(TrainWindows)

\* A pull that steps from the i-th window of the data to the next one.
StepAlong(i) == HasWindow(i + 1) /\ StepAB(TrainWindows[i], TrainWindows[i + 1])

\* A pull that restarts at the j-th window of the data.
RestartAt(j) ==
    /\ HasWindow(j) /\ Trained
    /\ DeadEnd(The(graph), Cursor)
    /\ StepAB(Cursor, TrainWindows[j])

FairDraws ==
    /\ \A i \in 1..(MaxLen - 1) : SF_vars(StepAlong(i))
    /\ \A j \in 1..MaxLen : SF_vars(RestartAt(j))

SpecWalk == InitWalk /\ [][NextWalk]_vars /\ WF_vars(NewGenerator) /\ FairDraws

(***************************************************************************)
(* The models of the repository's tests: RandomWriter(2) trained on        *)
(* (1,2,3,4,5,5,4,3,2,1), and the level 1 text models (word or character   *)
(* tokens) trained on "a the word the" or on a short text.                 *)
(***************************************************************************)
NumericSequence == [kind |-> "tuple", items |-> <<1, 2, 3, 4, 5, 5, 4, 3, 2, 1>>]
NumericIn == <<3, 4, 5, 5, 4, 3, 2>>

InitNumeric == RandomWriter(2, "none")
TrainNumeric == TrainOnce(NumericSequence)
PullNumeric == \E g \in 1..NGen : GeneratorNext(g, Len(NumericIn))
NextNumeric == TrainNumeric \/ NewGenerator \/ PullNumeric
SpecNumeric == InitNumeric /\ [][NextNumeric]_vars

WordsText == [kind |-> "str",
              items |-> <<"a", " ", "t", "h", "e", " ", "w", "o", "r", "d", " ", "t", "h", "e">>]
ShortTexts == [kind : {"str"}, items : SeqsUpTo(Chars, MaxLen)]

InitWords == \E m \in {"word", "character"} : RandomWriter(1, m)
TrainWords == \E data \in {WordsText} \cup ShortTexts : TrainOnce(data)
PullWords == \E g \in 1..NGen : GeneratorNext(g, 2)
NextWords == TrainWords \/ NewGenerator \/ PullWords
SpecWords == InitWords /\ [][NextWords]_vars

(***************************************************************************)
(* A Graph used on its own: any add_edge and get_random_token calls.       *)
(***************************************************************************)
GraphStates == {<<"x">>, <<"y">>, <<"x", "y">>}

\* graph.add_edge(next_state)
AddEdge(next_state) ==
    /\ Len(addLog) < MaxAdds
    /\ graph' = Some(add_edge(The(graph), next_state))
    /\ addLog' = Append(addLog, [current |-> The(graph).state_key, next_state |-> next_state])
    /\ result' = [op |-> "add_edge", raised |-> "none", by |-> "add_edge",
                  token |-> None, step |-> NoStep]
    /\ UNCHANGED <<level, mode, gen, trainCalls, trainTokens, emitted,
                   seen, pickled, saved, loaded, written>>

\* graph.get_random_token()
GetRandomToken ==
    /\ \E draw \in Draws(The(graph)) :
          LET r == get_random_token(The(graph), draw)
          IN  /\ graph' = Some(r.graph)
              /\ result' = [op |-> "next", raised |-> r.raised, by |-> "get_random_token",
                            token |-> r.token,
                            step |-> IF r.raised = "none"
                                         THEN [from |-> The(graph).state_key,
                                               to |-> r.graph.state_key,
                                               restart |-> r.restart]
                                         ELSE NoStep]
              /\ emitted' = IF r.raised = "none" THEN Recent(emitted, The(r.token), 1)
                            ELSE emitted
    /\ UNCHANGED <<level, mode, gen, trainCalls, trainTokens, addLog,
                   seen, pickled, saved, loaded, written>>

InitGraph ==
    /\ level = 0
    /\ mode = "none"
    /\ graph = Some(Graph(None))
    /\ gen = [g \in 1..NGen |-> "none"]
    /\ result = NoResult
    /\ trainCalls = 0
    /\ trainTokens = None
    /\ emitted = <<>>
    /\ addLog = <<>>
    /\ seen = [g \in 1..NGen |-> <<>>]
    /\ pickled = None
    /\ saved = None
    /\ loaded = None
    /\ written = None

AddAnyEdge == \E next_state \in GraphStates : AddEdge(next_state)
NextGraph == AddAnyEdge \/ GetRandomToken
SpecGraph == InitGraph /\ [][NextGraph]_vars

(***************************************************************************)
(* Pickling.  A pickle of an instance holds the name of its class and its  *)
(* attributes by name; a dict is written as its items.  The pickle file is *)
(* one file, which save_pickle writes and which other programs can write   *)
(* too; a caller passes it by name or as a file object opened on it.       *)
(***************************************************************************)
RandomWriterObject(lvl, m, g) ==
    [cls |-> "RandomWriter", level |-> lvl, mode |-> m, graph |-> g]

\* self, as the methods of RandomWriter see it
Self == RandomWriterObject(level, mode, graph)

\* Picklable objects that are not RandomWriter instances.
OtherObjects == {[cls |-> "list", items |-> <<"x">>]}

DumpGraph(g) ==
    IF g = None THEN <<"None">>
    ELSE <<"Graph",
           <<"_state_key", IF The(g).state_key = None THEN <<"None">>
                           ELSE <<"tuple", The(The(g).state_key)>>>>,
           <<"_vertices", {<<v, The(g).vertices[v]>> : v \in DOMAIN The(g).vertices}>>>>

\* A variant of LoadGraph that does not restore _state_key.
LoadGraph_nocursor(p) ==
    IF p[1] = "None" THEN None
    ELSE LET items == p[3][2]
         IN  Some([state_key |-> None,
                   vertices |-> [v \in {it[1] : it \in items} |->
                                    (CHOOSE it \in items : it[1] = v)[2]]])

LoadGraph(p) ==
    IF p[1] = "None" THEN None
    ELSE LET key == p[2][2]
             items == p[3][2]
         IN  Some([state_key |-> IF key[1] = "None" THEN None ELSE Some(key[2]),
                   vertices |-> [v \in {it[1] : it \in items} |->
                                    (CHOOSE it \in items : it[1] = v)[2]]])

\* pickle.dump(obj, file): the bytes written
pickle_dump(obj) ==
    IF obj.cls = "RandomWriter"
        THEN <<"RandomWriter", <<"_level", obj.level>>, <<"_mode", obj.mode>>,
               <<"_graph", DumpGraph(obj.graph)>>>>
        ELSE <<obj.cls, obj.items>>

\* pickle.load(file): the object the bytes stand for
pickle_load(p) ==
    IF p[1] = "RandomWriter"
        THEN RandomWriterObject(p[2][2], p[3][2], LoadGraph(p[4][2]))
        ELSE [cls |-> p[1], items |-> p[2]]

\* What a caller passes for filename_or_file_object.
FileArgs == {"file object", "filename"}

\* RandomWriter.save_pickle: the content of the file after the call.  Given
\* a filename it opens the file and calls itself with the file object.
save_pickle(self, arg) == Some(pickle_dump(self))

\* RandomWriter.load_pickle: the exception raised and the object returned.
\* pickle.load of a filename raises TypeError, which the except clause takes
\* as the sign to open the file; file is the content of the file.
load_pickle(arg, file) ==
    IF arg = "file object"
        THEN LET data == pickle_load(The(file))
             IN  IF data.cls = "RandomWriter"
                     THEN [raised |-> "none", data |-> Some(data)]
                     ELSE [raised |-> "ValueError", data |-> None]
    ELSE IF file = None
        THEN [raised |-> "FileNotFoundError", data |-> None]
        ELSE [raised |-> "none", data |-> Some(pickle_load(The(file)))]

\* A call of rw.save_pickle(arg).
SavePickle(arg) ==
    /\ pickled' = save_pickle(Self, arg)
    /\ saved' = Some(Self)
    /\ result' = [op |-> "save_pickle", raised |-> "none", by |-> "save_pickle",
                  token |-> None, step |-> NoStep, arg |-> arg]
    /\ UNCHANGED <<level, mode, graph, gen, trainCalls, trainTokens, emitted, addLog,
                   seen, loaded, written>>

\* A call of RandomWriter.load_pickle(arg).  A file object is one the caller
\* has opened for reading, so the file is there.
LoadPickle(arg) ==
    /\ arg = "file object" => pickled # None
    /\ LET l == load_pickle(arg, pickled)
       IN  /\ loaded' = l.data
           /\ result' = [op |-> "load_pickle", raised |-> l.raised, by |-> "load_pickle",
                         token |-> None, step |-> NoStep, arg |-> arg]
    /\ UNCHANGED <<level, mode, graph, gen, trainCalls, trainTokens, emitted, addLog,
                   seen, pickled, saved, written>>

\* Another program pickles an object of its own into the file.
DumpOther(obj) ==
    /\ pickled' = Some(pickle_dump(obj))
    /\ saved' = None
    /\ result' = [op |-> "dump_other", raised |-> "none", by |-> "dump_other",
                  token |-> None, step |-> NoStep]
    /\ UNCHANGED <<level, mode, graph, gen, trainCalls, trainTokens, emitted, addLog,
                   seen, loaded, written>>

\* A model trained at most once, generation, and saving and loading in any
\* order.
InitPickle == \E lvl \in 0..MaxLevel : RandomWriter(lvl, "none")
Save == \E arg \in FileArgs : SavePickle(arg)
Load == \E arg \in FileArgs : LoadPickle(arg)
Other == \E obj \in OtherObjects : DumpOther(obj)
NextPickle == TrainWalk \/ NewGenerator \/ Pull \/ Save \/ Load \/ Other
SpecPickle == InitPickle /\ [][NextPickle]_vars

(***************************************************************************)
(* generate_file.  The content of the file is the sequence of the pieces   *)
(* of text (or the bytes) written to it.                                   *)
(***************************************************************************)
MaxAmount == 2      \* the amount given to generate_file

\* The runs of `amount` next(self.generate()) calls (or next(gen) calls on
\* one generator) that the random draws allow from graph g: the tokens
\* returned, the graph after them and the exception that ended the run.
RECURSIVE Pulls(_, _)
Pulls(g, amount) ==
    IF amount = 0 THEN {[graph |-> g, tokens |-> <<>>, raised |-> "none"]}
    ELSE IF g = None
        THEN {[graph |-> g, tokens |-> <<>>, raised |-> "ValueError"]}
    ELSE UNION {LET r == get_random_token(The(g), draw)
                IN  IF r.raised # "none"
                        THEN {[graph |-> Some(r.graph), tokens |-> <<>>, raised |-> r.raised]}
                        ELSE {[graph |-> rest.graph,
                               tokens |-> <<The(r.token)>> \o rest.tokens,
                               raised |-> rest.raised] :
                                  rest \in Pulls(Some(r.graph), amount - 1)} :
                draw \in Draws(The(g))}

\* The write calls of the loop of generate_file: str(token), and a space
\* after it unless the tokens are characters.
RECURSIVE WriteTokens(_, _)
WriteTokens(m, tokens) ==
    IF tokens = <<>> THEN <<>>
    ELSE (IF m = "character" THEN <<Head(tokens)>> ELSE <<Head(tokens), " ">>)
             \o WriteTokens(m, Tail(tokens))

\* RandomWriter.generate_file on a file just opened for writing (by the
\* caller, or by generate_file itself when it is given a filename), for one
\* run of pulls: the content of the file after the call.  In byte mode the
\* tokens are written by one write call, and not at all when a pull raises;
\* in the other modes a token is written as soon as it is pulled.
generate_file(m, run) ==
    IF m = "byte"
        THEN IF run.raised = "none" THEN run.tokens ELSE <<>>
        ELSE WriteTokens(m, run.tokens)

\* A call of rw.generate_file(arg, amount).
GenerateFile(arg, amount) ==
    /\ \E run \in Pulls(graph, amount) :
          /\ graph' = run.graph
          /\ written' = Some(generate_file(mode, run))
          /\ result' = [op |-> "generate_file", raised |-> run.raised,
                        by |-> IF run.raised = "none" THEN "generate_file"
                               ELSE IF graph = None THEN "generate" ELSE "get_random_token",
                        token |-> None, step |-> NoStep,
                        arg |-> arg, amount |-> amount, tokens |-> run.tokens]
    /\ UNCHANGED <<level, mode, gen, trainCalls, trainTokens, emitted, addLog,
                   seen, pickled, saved, loaded>>

\* A model of any mode trained at most once, and generate_file calls.
TrainFile == \E data \in DataOfLen(MaxLen) : TrainOnce(data)
WriteFile == \E arg \in FileArgs, amount \in 0..MaxAmount : GenerateFile(arg, amount)
NextFile == TrainFile \/ WriteFile
SpecFile == Init /\ [][NextFile]_vars

(***************************************************************************)
(* Several consumers: generators obtained from generate() on one model     *)
(* that was trained once, pulled from in any order.  At level 0 or 1 a     *)
(* state is the 1-tuple of a token, so the tokens show the walk.           *)
(***************************************************************************)
NConsumers == 2     \* generator objects the consumers hold

InitShared ==
    /\ level \in {0, 1}
    /\ mode = "none"
    /\ graph = None
    /\ gen = [g \in 1..NConsumers |-> "none"]
    /\ result = NoResult
    /\ trainCalls = 0
    /\ trainTokens = None
    /\ emitted = <<>>
    /\ addLog = <<>>
    /\ seen = [g \in 1..NConsumers |-> <<>>]
    /\ pickled = None
    /\ saved = None
    /\ loaded = None
    /\ written = None

NewConsumer == \E g \in 1..NConsumers : Generate(g)
PullShared == \E g \in 1..NConsumers : GeneratorNext(g, 2)
NextShared == TrainWalk \/ NewConsumer \/ PullShared
SpecShared == InitShared /\ [][NextShared]_vars

(***************************************************************************)
(* Properties                                                              *)
(***************************************************************************)

\* C1 (as claimed): training is cumulative.  When the second train_iterable
\* call on a RandomWriter succeeds, on data d2 after data d1, the graph holds
\* every window of d1 as a vertex and the weight of every edge A -> B is the
\* number of times B follows A in d1 plus the number of times in d2.
C1_TrainingIsCumulative ==
    [][(/\ trainCalls = 1 /\ trainCalls' = 2
        /\ trainTokens # None
        /\ result'.op = "train_iterable" /\ result'.raised = "none")
       => LET d1 == Windows(The(trainTokens), level)
              d2 == Windows(The(trainTokens'), level)
              g == The(graph')
          IN  /\ Range(d1) \subseteq DOMAIN g.vertices
              /\ \A a \in Range(d1) \cup Range(d2), b \in Range(d1) \cup Range(d2) :
                    Weight(g, a, b) = Follows(d1, a, b) + Follows(d2, a, b)]_vars

\* C2 (as claimed): hard exclusion.  At level >= 1 every generation step
\* moves the cursor along an edge of weight >= 1.
C2_EveryStepAlongAnEdge ==
    (Pulled /\ level >= 1) => Weight(The(graph), StepFrom, StepTo) >= 1

\* C2 (amended): at level >= 1 a generation step from a state that has an
\* outgoing edge moves the cursor along an edge of weight >= 1; only the
\* restart taken from a state without outgoing edges moves it to a vertex
\* that no edge leads to from there.
C2_StepAlongAnEdgeOrRestart ==
    (Pulled /\ level >= 1) =>
        IF DeadEnd(The(graph), StepFrom)
            THEN result.step.restart /\ StepTo \in Vertices
            ELSE ~result.step.restart /\ Weight(The(graph), StepFrom, StepTo) >= 1

\* C2 witness: a step along an edge between two different states, level >= 1.
C2_Witness ==
    /\ Pulled /\ level >= 1
    /\ ~result.step.restart
    /\ result.step.from # result.step.to

\* The vertices the cursor of g can come to: by edges, and by the restart
\* from a vertex without outgoing edges, which can choose any vertex.
RECURSIVE ReachFrom(_, _)
ReachFrom(g, R) ==
    LET byEdge == UNION {CounterKeys(g.vertices[v]) : v \in R}
        byRestart == IF \E v \in R : DeadEnd(g, v) THEN DOMAIN g.vertices ELSE {}
        more == R \cup byEdge \cup byRestart
    IN  IF more = R THEN R ELSE ReachFrom(g, more)

Reach(g) == ReachFrom(g, g.state_key)

JustTrained == result.op = "train_iterable" /\ Trained
SteppedAB(a, b) == Pulled /\ result.step.from = Some(a) /\ result.step.to = Some(b)

\* Every edge of the trained graph leads from a window of the data to the
\* window after it.
EdgesAreWindowPairs ==
    (Trained /\ trainTokens # None) =>
        \A v \in Vertices : \A w \in CounterKeys(The(graph).vertices[v]) :
            \E i \in 1..(Len(TrainWindows) - 1) :
                TrainWindows[i] = v /\ TrainWindows[i + 1] = w

\* Generation has stepped over the edge from the i-th window to the next.
SteppedAlong(i) ==
    HasWindow(i + 1) /\ SteppedAB(TrainWindows[i], TrainWindows[i + 1])

\* C3 (as claimed): non-zero weight implies reachable.  After training,
\* every edge A -> B of weight >= 1 (every pair of consecutive windows of the
\* data) is eventually stepped over by generation, under fair random choices.
C3_EveryEdgeEventuallyTaken ==
    /\ []EdgesAreWindowPairs
    /\ \A i \in 1..(MaxLen - 1) :
          (JustTrained /\ HasWindow(i + 1)) ~> SteppedAlong(i)

\* C3 (amended): after training, every edge A -> B of weight >= 1 whose
\* source A the cursor can come to from its place after training (by edges,
\* or by the restart from a state without outgoing edges) is eventually
\* stepped over by generation, under fair random choices.
C3_EveryReachableEdgeEventuallyTaken ==
    /\ []EdgesAreWindowPairs
    /\ \A i \in 1..(MaxLen - 1) :
          (JustTrained /\ HasWindow(i + 1) /\ TrainWindows[i] \in Reach(The(graph)))
              ~> SteppedAlong(i)

\* C3 witness: generation steps over an edge whose source is not the state
\* training left the cursor on.
C3_Witness ==
    /\ Pulled /\ ~result.step.restart
    /\ trainTokens # None /\ TrainWindows # <<>>
    /\ StepFrom # TrainWindows[Len(TrainWindows)]
    /\ Weight(The(graph), StepFrom, StepTo) >= 1

\* C4: closure.  Every token a pull returns is one of the tokens of the data
\* the graph was trained on.
C4_Closure ==
    Pulled => (trainTokens # None /\ The(result.token) \in Range(The(trainTokens)))

\* C4 witness: a token is returned by a model trained on data with two
\* different tokens.
C4_Witness ==
    /\ Pulled
    /\ trainTokens # None /\ Cardinality(Range(The(trainTokens))) >= 2
    /\ The(result.token) \in Range(The(trainTokens))

\* C5: dead-end fallback.  On a trained graph (one with a current state),
\* whether or not the current state has outgoing edges, get_random_token
\* raises nothing and returns a token for every value the random draws can
\* take, and the last pull that reached the graph raised nothing.
C5_NoErrorAtDeadEnd ==
    Trained =>
        /\ Draws(The(graph)) # {}
        /\ \A draw \in Draws(The(graph)) :
              LET r == get_random_token(The(graph), draw)
              IN  r.raised = "none" /\ r.token # None /\ r.graph.state_key # None
        /\ (result.op = "next" /\ result.by = "get_random_token")
              => (result.raised = "none" /\ result.token # None)

\* C5 witness: a pull from a state without outgoing edges returned a token.
C5_Witness ==
    /\ Pulled /\ result.step.restart
    /\ DeadEnd(The(graph), StepFrom)
    /\ result.token # None

\* The vertex set, edge weights and cursor of the model's graph; a model
\* without a graph has no vertex and no cursor.
Contents(g) == IF g = None THEN Graph(None) ELSE The(g)

\* C6 (as claimed): a train_iterable call on data with fewer tokens than the
\* level leaves the vertex set, the edge weights and the cursor of the
\* model's graph as they were.
C6_ShortDataIsNoOp ==
    [][(/\ result'.op = "train_iterable" /\ result'.raised = "none"
        /\ trainTokens' # None
        /\ Len(The(trainTokens')) < level)
       => Contents(graph') = Contents(graph)]_vars

\* C7: in a generation run of the level 2 model trained on
\* (1,2,3,4,5,5,4,3,2,1), neither 5,5,3 nor 1,2,5 occurs.
C7_NumericNotIn ==
    /\ ~Contains(emitted, <<5, 5, 3>>)
    /\ ~Contains(emitted, <<1, 2, 5>>)

\* C7 witness: a generation run of that model produces 3,4,5,5,4,3,2.
C7_Witness == Trained /\ emitted = NumericIn

WordModelTrained == mode = "word" /\ trainTokens = Some(Split(WordsText.items))

\* C8: in a generation run of the level 1 word model trained on
\* "a the word the", "the" is never immediately followed by "a".
C8_TheNeverFollowedByA ==
    WordModelTrained => ~Contains(emitted, <<"the", "a">>)

\* C8 witness: a generation run of that model produces "the" then "word".
C8_Witness == WordModelTrained /\ emitted = <<"the", "word">>

\* The add_edge(b) calls made while a was the current state.
CallsAt(a, b) ==
    Cardinality({i \in 1..Len(addLog) :
                    addLog[i].current = Some(a) /\ addLog[i].next_state = b})

\* The states given to add_edge, in order.
Inserted == [i \in 1..Len(addLog) |-> addLog[i].next_state]

\* C9: after any add_edge calls every weight stored in the graph is >= 1,
\* the weight of A -> B is the number of add_edge(B) calls made while A was
\* current and, as long as only add_edge was called, the number of times B
\* immediately follows A in the inserted sequence.
C9_WeightsCountInsertions ==
    LET g == The(graph)
    IN  /\ \A v \in DOMAIN g.vertices : \A i \in 1..Len(g.vertices[v]) :
              g.vertices[v][i][2] >= 1
        /\ \A a \in GraphStates, b \in GraphStates :
              /\ Weight(g, a, b) = CallsAt(a, b)
              /\ (result.op # "next" /\ emitted = <<>>)
                    => Weight(g, a, b) = Follows(Inserted, a, b)

\* C9 witness: add_edge calls alone have put the same edge in twice.
C9_Witness ==
    /\ emitted = <<>> /\ result.op = "add_edge"
    /\ \E a \in GraphStates, b \in GraphStates : Weight(The(graph), a, b) = 2

\* C10: every key of a successor map is a key of the vertex map.
C10_EdgesPointToVertices ==
    LET g == The(graph)
    IN  \A v \in DOMAIN g.vertices : CounterKeys(g.vertices[v]) \subseteq DOMAIN g.vertices

\* C10 witness: after add_edge and get_random_token calls, a vertex has two
\* successors.
C10_Witness ==
    /\ Pulled
    /\ \E v \in Vertices : Cardinality(CounterKeys(The(graph).vertices[v])) >= 2

\* The sum of all edge weights of g: the add_edge calls that added to an
\* edge (every call but the first on a new Graph).
TotalWeight(g) ==
    LET RECURSIVE Total(_)
        Total(V) == IF V = {} THEN 0
                    ELSE LET v == CHOOSE x \in V : TRUE
                         IN  CounterSum(g.vertices[v]) + Total(V \ {v})
    IN  Total(DOMAIN g.vertices)

\* The last call was a train_iterable call that raised nothing.
TrainedNow == result.op = "train_iterable" /\ result.raised = "none"

\* C11: one train_iterable call on tokenized data of length L with level lvl
\* makes exactly max(0, L - lvl + 1) add_edge insertions when lvl >= 1 and
\* exactly L when lvl = 0; the i-th insertion is the window of lvl (or 1)
\* consecutive tokens that starts at position i.  The graph after the call
\* is the one these insertions build on a new Graph: all its edge weights
\* sum to one less than the insertions, and its cursor is the last window.
C11_WindowInsertions ==
    TrainedNow =>
        LET t == The(trainTokens)
            L == Len(t)
            width == IF level = 0 THEN 1 ELSE level
            n == IF level = 0 THEN L
                 ELSE IF L - level + 1 > 0 THEN L - level + 1 ELSE 0
            window == [i \in 1..n |-> [j \in 1..width |-> t[i + j - 1]]]
            g == The(graph)
        IN  /\ g = AddWindows(Graph(None), window, 1)
            /\ TotalWeight(g) = (IF n = 0 THEN 0 ELSE n - 1)
            /\ g.state_key = (IF n = 0 THEN None ELSE Some(window[n]))
            /\ DOMAIN g.vertices = Range(window)

\* C11 witness: a level 2 model trained on three tokens made two insertions.
C11_Witness ==
    /\ TrainedNow
    /\ level = 2 /\ Len(The(trainTokens)) = 3
    /\ TotalWeight(The(graph)) = 1
    /\ Cursor = SubSeq(The(trainTokens), 2, 3)

\* No train_iterable call has succeeded so far.
NeverTrained == trainTokens = None

\* The last call was the pull of a generator that had not ended before.
PulledLive == result.op = "next" /\ result.by # "next"

\* C12: on a RandomWriter on which no train_iterable call has ever succeeded,
\* the first pull from a generator of generate() raises ValueError and
\* returns no token; when no call has given the model a graph, the
\* ValueError is the one generate raises itself.
C12_UntrainedGenerateFails ==
    (PulledLive /\ NeverTrained) =>
        /\ result.raised = "ValueError"
        /\ result.token = None
        /\ (graph = None => result.by = "generate")

\* C12 witness: after a train_iterable call that failed with TypeError, the
\* first pull raised the ValueError of generate.
C12_Witness ==
    /\ PulledLive /\ NeverTrained
    /\ trainCalls >= 1 /\ graph = None
    /\ result.raised = "ValueError" /\ result.by = "generate"

\* C13 (as claimed): a save_pickle call on a RandomWriter on which no
\* train_iterable call has succeeded raises ValueError and writes no model.
C13_SaveUntrainedFails ==
    (result.op = "save_pickle" /\ NeverTrained) =>
        (result.raised = "ValueError" /\ pickled = None)

\* The last call was a load_pickle call on the file as save_pickle wrote it.
LoadedSaved == result.op = "load_pickle" /\ saved # None

\* C15: round trip.  load_pickle on the file save_pickle wrote, given by
\* name or as a file object, raises nothing and returns a RandomWriter with
\* the level, the tokenization mode, the vertex set, the edge weights and
\* the cursor the model had when it was saved, whatever the model has done
\* since.
C15_RoundTrip ==
    LoadedSaved =>
        /\ result.raised = "none"
        /\ loaded # None
        /\ The(loaded).cls = "RandomWriter"
        /\ The(loaded).level = The(saved).level
        /\ The(loaded).mode = The(saved).mode
        /\ (The(saved).graph = None) = (The(loaded).graph = None)
        /\ (The(saved).graph # None =>
              LET g == The(The(saved).graph)
                  h == The(The(loaded).graph)
              IN  /\ DOMAIN h.vertices = DOMAIN g.vertices
                  /\ \A a \in DOMAIN g.vertices, b \in DOMAIN g.vertices :
                        Weight(h, a, b) = Weight(g, a, b)
                  /\ \A a \in DOMAIN g.vertices : h.vertices[a] = g.vertices[a]
                  /\ h.state_key = g.state_key)

\* C15 witness: a trained model was saved after generation had moved its
\* cursor off the last window of the data, the model went on generating, and
\* the file was loaded: the loaded model has an edge and the cursor of the
\* time of saving, which is not the cursor the model has now.
C15_Witness ==
    /\ LoadedSaved /\ loaded = saved /\ Trained
    /\ The(saved).graph # None
    /\ LET g == The(The(saved).graph)
       IN  /\ g.state_key # None
           /\ TotalWeight(g) >= 1
           /\ The(g.state_key) # TrainWindows[Len(TrainWindows)]
           /\ g.state_key # The(graph).state_key

\* C20 (as claimed): load_pickle, given the file by name or as a file
\* object, returns the unpickled object only if it is a RandomWriter
\* instance, and otherwise raises ValueError and returns nothing.
C20_LoadChecksClass ==
    (result.op = "load_pickle" /\ pickled # None) =>
        LET data == pickle_load(The(pickled))
        IN  IF data.cls = "RandomWriter"
                THEN result.raised = "none" /\ loaded = Some(data)
                ELSE result.raised = "ValueError" /\ loaded = None

\* Data of a kind that does not match the tokenization mode: bytes for word
\* or character mode, a str for byte mode, a non-iterable for none mode.
MismatchData(m) ==
    IF m \in {"word", "character"} THEN [kind : {"bytes"}, items : SeqsUpTo(Bytes, MaxLen)]
    ELSE IF m = "byte" THEN [kind : {"str"}, items : SeqsUpTo(Chars, MaxLen)]
    ELSE [kind : {"noniterable"}, items : {<<>>}]

\* C14: a train_iterable call with data whose kind does not match the
\* tokenization mode raises TypeError and leaves the model's graph, with its
\* vertices, weights and cursor, as it was before the call.
C14_TypeErrorLeavesGraph ==
    [][\/ result'.op # "train_iterable"
       \/ result'.raised = "TypeError" /\ graph' = graph
       \/ \A data \in MismatchData(mode) : ~TrainIterable(data)]_vars

\* C14 witness: a trained tokenization-free model was given a non-iterable;
\* the call raised TypeError and the graph still has its edges and cursor.
C14_Witness ==
    /\ result.op = "train_iterable" /\ result.raised = "TypeError"
    /\ mode = "none"
    /\ Trained /\ TotalWeight(The(graph)) >= 1

\* The tokens with one space between each two of them.
RECURSIVE Join(_)
Join(tokens) ==
    IF Len(tokens) <= 1 THEN tokens
    ELSE <<Head(tokens), " ">> \o Join(Tail(tokens))

\* C16 (as claimed): a generate_file(sink, n) call that raises nothing
\* writes exactly n generated tokens: in byte and character mode one after
\* another with no separator (output length n), in word and none mode with
\* exactly one space between each two consecutive tokens and nowhere else
\* (n - 1 separators).
C16_TokensAndSeparators ==
    (result.op = "generate_file" /\ result.raised = "none") =>
        /\ Len(result.tokens) = result.amount
        /\ written # None
        /\ IF mode \in {"byte", "character"}
               THEN The(written) = result.tokens /\ Len(The(written)) = result.amount
               ELSE The(written) = Join(result.tokens)

\* w1 + ... + wi for the successors of Counter c in insertion order
RECURSIVE PrefixSum(_, _)
PrefixSum(c, i) == IF i = 0 THEN 0 ELSE PrefixSum(c, i - 1) + c[i][2]

\* C17: weighted selection.  When the current state has successors s1..sk
\* (in insertion order) with weights w1..wk and total W > 0, then for every
\* draw r in 1..W yield_neighbor raises nothing (the assert(False) after the
\* loop is not reached) and returns the one si with
\* w1+...+w(i-1) < r <= w1+...+wi; so the draw determines the successor, and
\* exactly wi of the W values of the draw select si.
C17_WeightedSelection ==
    LET g == The(graph)
    IN  (g.state_key # None /\ neighbor_count(g) > 0) =>
            LET c == g.vertices[The(g.state_key)]
                W == CounterSum(c)
                picks(r) == {i \in 1..Len(c) : PrefixSum(c, i - 1) < r /\ r <= PrefixSum(c, i)}
            IN  /\ W = PrefixSum(c, Len(c))
                /\ \A r \in 1..W :
                      /\ yield_neighbor(g, r).raised = "none"
                      /\ Cardinality(picks(r)) = 1
                      /\ \A i \in picks(r) : yield_neighbor(g, r).neighbor = Some(c[i][1])
                /\ \A i \in 1..Len(c) :
                      Cardinality({r \in 1..W : yield_neighbor(g, r).neighbor = Some(c[i][1])})
                          = c[i][2]

\* C17 witness: get_random_token stepped to the second successor of a state
\* whose first successor has weight 2 (a draw above the first weight).
C17_Witness ==
    /\ Pulled /\ ~result.step.restart
    /\ LET c == The(graph).vertices[StepFrom]
       IN  /\ Len(c) >= 2
           /\ c[1][2] >= 2
           /\ StepTo = c[2][1]

\* C18 (as claimed): through RandomWriter the error of the graph is never
\* seen.  After any constructor, train_iterable and generate calls, a pull
\* from a generator that had not ended either raises the ValueError of
\* generate or returns a token; it never raises the ValueError that
\* Graph.get_random_token raises on a graph without a current state.
C18_GraphErrorUnreachable ==
    PulledLive =>
        \/ result.raised = "ValueError" /\ result.by = "generate"
        \/ result.raised = "none" /\ result.token # None

\* The cursor can step from state a to state b in graph g: along an edge,
\* or by the restart from a state without outgoing edges.
IsStep(g, a, b) ==
    \/ Weight(g, a, b) >= 1
    \/ DeadEnd(g, a) /\ b \in DOMAIN g.vertices

\* The tokens in s, each the state after the one before it, form a walk.
IsWalk(g, s) == \A i \in 1..(Len(s) - 1) : IsStep(g, <<s[i]>>, <<s[i + 1]>>)

\* C19: the generators obtained from generate() on one model share the
\* graph's one cursor.  However the pulls of the generators interleave, a
\* pull steps from the state the pull before it (of whichever generator)
\* left: the cursor is where the last pull put it, and the tokens in the
\* order they were pulled form one walk of the graph that ends at the
\* cursor.  (That the tokens one consumer sees need not form a walk is what
\* the witness shows.)
C19_SharedCursor ==
    /\ Pulled => (Trained /\ result.step.to = The(graph).state_key)
    /\ Trained =>
          /\ IsWalk(The(graph), emitted)
          /\ (emitted # <<>> => Cursor = <<emitted[Len(emitted)]>>)
          /\ \A g \in DOMAIN seen :
                seen[g] # <<>> => <<seen[g][Len(seen[g])]>> \in Vertices

\* C19 witness: two tokens one consumer saw one after the other do not form
\* a step of the graph (there is no edge between them and the first is not
\* a dead end), because the other consumer pulled in between; the tokens in
\* pull order form a walk.
C19_Witness ==
    /\ Pulled /\ Trained
    /\ Len(emitted) = 2 /\ IsWalk(The(graph), emitted)
    /\ \E g \in DOMAIN seen :
          /\ Len(seen[g]) = 2
          /\ seen[g][2] = emitted[2]
          /\ seen[g][1] # emitted[1]
          /\ ~IsStep(The(graph), <<seen[g][1]>>, <<seen[g][2]>>)

\* C21: generation changes only the cursor.  Every get_random_token call,
\* whether it steps along an edge, restarts at a random vertex or raises,
\* leaves the vertex set and every successor Counter (its keys, their order
\* and their weights) as they were; so the draws possible from a state, and
\* what each selects, are the same after any number of generated tokens.
C21_GenerationChangesOnlyCursor ==
    [][GetRandomToken =>
          /\ The(graph').vertices = The(graph).vertices
          /\ DOMAIN The(graph').vertices = DOMAIN The(graph).vertices
          /\ \A a \in GraphStates, b \in GraphStates :
                Weight(The(graph'), a, b) = Weight(The(graph), a, b)
          /\ (result'.raised # "none" => graph' = graph)
          /\ UNCHANGED addLog]_vars

\* C21 witness: a restart moved the cursor to another state, and the graph
\* holds just the edges add_edge put in, two or more.
C21_Witness ==
    /\ Pulled /\ result.step.restart
    /\ StepFrom # StepTo
    /\ TotalWeight(The(graph)) >= 2
    /\ \A a \in GraphStates, b \in GraphStates : Weight(The(graph), a, b) = CallsAt(a, b)

\* C22: once the first state has been added, after any add_edge and
\* get_random_token calls the current state of the graph is a key of the
\* vertex map, so the lookup of its successors finds a Counter; and so is
\* the state every possible next get_random_token call moves to.
C22_CurrentStateIsVertex ==
    LET g == The(graph)
    IN  /\ (addLog # <<>>) = (g.state_key # None)
        /\ (g.state_key # None =>
              /\ The(g.state_key) \in DOMAIN g.vertices
              /\ \A draw \in Draws(g) :
                    LET r == get_random_token(g, draw)
                    IN  /\ r.raised = "none"
                        /\ The(r.graph.state_key) \in DOMAIN r.graph.vertices)

\* C22 witness: after generation, add_edge has made a new vertex the current
\* state; it is a key of the vertex map, with no successors yet.
C22_Witness ==
    /\ result.op = "add_edge" /\ emitted # <<>>
    /\ Cardinality(Vertices) >= 2
    /\ Cursor \in Vertices
    /\ The(graph).vertices[Cursor] = Counter

\* The vertices of g without outgoing edges.
DeadEnds(g) == {v \in DOMAIN g.vertices : DeadEnd(g, v)}

\* C23: after the one train_iterable call of a model, if it inserted a
\* window, at most one vertex has no outgoing edge; if there is one, it is
\* the last window of the data, which is where training leaves the cursor.
\* This stays so during generation, and a restart is only ever taken from
\* that state.
C23_OnlyLastWindowIsDeadEnd ==
    Trained =>
        LET last == TrainWindows[Len(TrainWindows)]
        IN  /\ Cardinality(DeadEnds(The(graph))) <= 1
            /\ DeadEnds(The(graph)) \subseteq {last}
            /\ (JustTrained => Cursor = last)
            /\ (Pulled /\ result.step.restart) =>
                  (StepFrom = last /\ DeadEnds(The(graph)) = {last})

\* C23 witness: in a graph of two or more vertices generation restarted from
\* the last window of the data, the one vertex without outgoing edges, and
\* moved to another vertex.
C23_Witness ==
    /\ Pulled /\ result.step.restart
    /\ Cardinality(Vertices) >= 2
    /\ StepFrom = TrainWindows[Len(TrainWindows)]
    /\ DeadEnds(The(graph)) = {StepFrom}
    /\ StepTo # StepFrom

\* The graph train_iterable builds from the tokens at level lvl.
GraphAtLevel(tokens, lvl) == AddWindows(Graph(None), Windows(tokens, lvl), 1)

\* C24: a level 0 model is a level 1 model.  Whatever the data, the graph a
\* model of level 0 or 1 holds after train_iterable is the graph a model of
\* the other of the two levels builds from the same tokens: same vertices,
\* same successor Counters, same cursor.  Generation leaves the vertices and
\* weights equal, and at level 0 as at level 1 a step from a state with
\* successors goes to one of them: the next token depends on the one before.
C24_LevelZeroIsLevelOne ==
    (Trained /\ level <= 1) =>
        LET other == GraphAtLevel(The(trainTokens), 1 - level)
        IN  /\ The(graph).vertices = other.vertices
            /\ (TrainedNow => The(graph) = other)
            /\ \A tok \in Range(The(trainTokens)) : <<tok>> \in Vertices
            /\ (Pulled /\ ~result.step.restart) =>
                  Weight(other, StepFrom, StepTo) >= 1

\* C24 witness: a level 0 model stepped along an edge from a state after
\* which not every token of the data can come: another vertex is not among
\* its successors.
C24_Witness ==
    /\ level = 0
    /\ Pulled /\ ~result.step.restart
    /\ The(graph).vertices = GraphAtLevel(The(trainTokens), 1).vertices
    /\ \E v \in Vertices : Weight(The(graph), StepFrom, v) = 0

====
